---- MODULE Spec2Model ----
(***************************************************************************)
(* scream: a concurrent multi-target dictionary attack (src/src/main.rs).  *)
(* main loads a file of hex digests into a shared RwLock<Vec<Hash>>, opens *)
(* one line stream per CPU on the wordlist, spawns one task per stream and *)
(* joins them.  Each task loops: leave when the list is empty, pull the    *)
(* next line, clone the list, compare, print a match, remove by index.     *)
(*                                                                         *)
(* Abstractions: a byte string is a sequence of one-character strings; the *)
(* digest functions are replaced by an injective one-byte code per mode    *)
(* (collision freedom is what the run relies on, not the bit pattern);     *)
(* elapsed times are not modelled.                                         *)
(***************************************************************************)
EXTENDS Integers, Sequences, FiniteSets, TLC

\* ------------------------------------------------------------------ bounds
MaxFileLen == 2      \* bytes in the wordlist file
MaxCpus == 2         \* value of num_cpus::get()
MaxHashLines == 2    \* lines in the hashes file

\* ------------------------------------------------------------ pure helpers
NL == "\n"
Bytes == {"a", NL}
HashModes == {"Sha256", "Sha512", "MD5"}
\* The mode is fixed for a run and only selects the digest function, so whole
\* runs are explored for one mode; gen_hash itself covers all three.
RunModes == {"Sha256"}

\* tokio Lines: split at "\n"; a last line without terminator is still a line.
RECURSIVE Lines(_)
Lines(bytes) ==
    IF bytes = <<>> THEN <<>>
    ELSE IF \E i \in 1..Len(bytes) : bytes[i] = NL
         THEN LET i == CHOOSE k \in 1..Len(bytes) :
                          bytes[k] = NL /\ \A j \in 1..(k-1) : bytes[j] # NL
              IN  <<SubSeq(bytes, 1, i-1)>> \o Lines(SubSeq(bytes, i+1, Len(bytes)))
         ELSE <<bytes>>

\* BufReader::with_capacity(cap, f) read through lines(): a buffer of capacity
\* 0 fills with 0 bytes, which read_until takes for end of file.
BufReaderLines(bytes, cap) == IF cap = 0 THEN <<>> ELSE Lines(bytes)

\* The stream of task i (1-based here, i-1 in the code): seek to (i-1)*spn and
\* read to the end of the file.
Partition(file, n, i) ==
    LET s == Len(file)
        spn == s \div n
    IN  BufReaderLines(SubSeq(file, (i-1) * spn + 1, s), spn)

read_wordlist(file, n) == [i \in 1..n |-> Partition(file, n, i)]

\* Byte offset in the file at which stream i starts: SeekFrom::Start(i * spn).
PartitionStart(file, n, i) == (i - 1) * (Len(file) \div n)
\* Byte offset at which the k-th line of a stream begins, the stream starting
\* at byte `start`: each earlier line took its bytes and one terminator.
RECURSIVE LineStart(_, _, _)
LineStart(lines, start, k) ==
    IF k = 1 THEN start ELSE LineStart(lines, start, k - 1) + Len(lines[k - 1]) + 1

\* Stand-in for the digest: base-4 positional code of the data, salted by mode.
CharCode(c) == CASE c = "a" -> 1 [] c = "z" -> 3 [] OTHER -> 2
RECURSIVE WordCode(_)
WordCode(data) ==
    IF data = <<>> THEN 0
    ELSE 4 * WordCode(SubSeq(data, 1, Len(data) - 1)) + CharCode(data[Len(data)])
ModeSalt(mode) == CASE mode = "Sha256" -> 160 [] mode = "Sha512" -> 176 [] OTHER -> 192
gen_hash(data, hash_mode) == <<(ModeSalt(hash_mode) + WordCode(data)) % 256>>

\* hex::encode / hex::decode
HexDigits == <<"0","1","2","3","4","5","6","7","8","9","a","b","c","d","e","f">>
UpperDigits == <<"0","1","2","3","4","5","6","7","8","9","A","B","C","D","E","F">>
IsHexChar(c) == \E k \in 1..16 : HexDigits[k] = c \/ UpperDigits[k] = c
HexVal(c) == (CHOOSE k \in 1..16 : HexDigits[k] = c \/ UpperDigits[k] = c) - 1
hex_encode(bytes) ==
    [k \in 1..(2 * Len(bytes)) |->
        LET b == bytes[(k + 1) \div 2]
        IN  IF k % 2 = 1 THEN HexDigits[(b \div 16) + 1] ELSE HexDigits[(b % 16) + 1]]
\* The same digest spelled in upper case, which hex::decode accepts as well.
hex_encode_upper(bytes) ==
    [k \in 1..(2 * Len(bytes)) |->
        LET b == bytes[(k + 1) \div 2]
        IN  IF k % 2 = 1 THEN UpperDigits[(b \div 16) + 1] ELSE UpperDigits[(b % 16) + 1]]
hex_valid(text) == Len(text) % 2 = 0 /\ \A k \in 1..Len(text) : IsHexChar(text[k])
\* hex::decode's Err(FromHexError), as a value no digest equals.
FromHexError == <<-1>>
hex_decode(text) ==
    IF hex_valid(text)
    THEN [k \in 1..(Len(text) \div 2) |-> 16 * HexVal(text[2*k - 1]) + HexVal(text[2*k])]
    ELSE FromHexError

Range(s) == {s[k] : k \in 1..Len(s)}
Perms(S) == {p \in [1..Cardinality(S) -> S] : \A x \in S : \E k \in 1..Cardinality(S) : p[k] = x}
\* Mutant of RemoveAt: the list is cut at the index (truncate, not remove).
RemoveAt_truncate(s, idx) == SubSeq(s, 1, idx - 1)
RemoveAt(s, idx) == [k \in 1..(Len(s) - 1) |-> IF k < idx THEN s[k] ELSE s[k + 1]]

\* ------------------------------------------------------------------ inputs
Files == UNION {[1..k -> Bytes] : k \in 0..MaxFileLen}
\* Lines a hashes file is drawn from: the digests of two words the wordlist can
\* hold (the empty line and "a") and of one it cannot ("z"), as hex::encode
\* writes them, the second also in upper case, and a line that is not
\* hexadecimal.
BadHex == <<"0", "g">>
HashLineChoices(mode) ==
    {hex_encode(gen_hash(<<>>, mode)), hex_encode(gen_hash(<<"a">>, mode)),
     hex_encode_upper(gen_hash(<<"a">>, mode)),
     hex_encode(gen_hash(<<"z">>, mode)), BadHex}
HashFiles(mode) == UNION {[1..k -> HashLineChoices(mode)] : k \in 0..MaxHashLines}

\* ------------------------------------------------------------------- state
VARIABLES
    hashes_file,   \* the lines read_hashes has read, until main moves on
    wordlist_file, \* args.wordlist_path's content: a sequence of bytes
    hash_mode,     \* args.hash_mode
    num_cpus,      \* num_cpus::get()
    mainPc,        \* where main is
    hashes,        \* the Vec<Hash> inside the RwLock
    poisoned,      \* the RwLock's poison flag
    streams,       \* read_wordlist's result: the lines each stream will yield
    spawned,       \* tasks spawned so far
    pc,            \* per task: where it is
    pos,           \* per task: lines its stream has yielded
    password,      \* per task: the line bound by `if let Some(password)`
    h,             \* per task: its clone of the list
    hash_idx,      \* per task: the index of the match in h (1-based)
    hashes_input,  \* history: what the load met: "unread", "unopened", "valid", "malformed"
    loaded,        \* history: the digests read_hashes returned
    matches,       \* history: the match lines printed
    removals,      \* history: what each remove(hash_idx) removed
    report,        \* history: the unresolved list main printed
    ioFailed,      \* history: tasks whose line read failed
    afterEmpty     \* history: per task, lines pulled / compared since the list emptied

vars == <<hashes_file, wordlist_file, hash_mode, num_cpus, mainPc, hashes, poisoned,
          streams, spawned, pc, pos, password, h, hash_idx, hashes_input, loaded, matches,
          removals, report, ioFailed, afterEmpty>>
inputVars == <<wordlist_file, hash_mode, num_cpus>>
taskVars == <<pc, pos, password, h, hash_idx>>
histVars == <<hashes_input, loaded, matches, removals, report, ioFailed, afterEmpty>>

Tasks == 1..num_cpus
NoReport == [printed |-> FALSE, unresolved |-> <<>>]

Init ==
    /\ hash_mode \in RunModes
    /\ hashes_file = <<>>
    /\ wordlist_file \in Files
    /\ num_cpus \in 1..MaxCpus
    /\ mainPc = "read_hashes"
    /\ hashes = <<>>
    /\ poisoned = FALSE
    /\ streams = <<>>
    /\ spawned = 0
    /\ pc = [w \in Tasks |-> "unspawned"]
    /\ pos = [w \in Tasks |-> 0]
    /\ password = [w \in Tasks |-> <<>>]
    /\ h = [w \in Tasks |-> <<>>]
    /\ hash_idx = [w \in Tasks |-> 0]
    /\ hashes_input = "unread"
    /\ loaded = {}
    /\ matches = {}
    /\ removals = {}
    /\ report = NoReport
    /\ ioFailed = {}
    /\ afterEmpty = [w \in Tasks |-> [pulled |-> 0, compared |-> 0]]

\* -------------------------------------------------------------------- lock
\* The RwLock around the shared list. A guard's life is a set of task
\* positions: the positions, between two steps, at which the guard is alive.
\* Mutant of read_guard_live: the guard of the clone is bound to a variable and
\* lives through the comparison loop, the write request included.
read_guard_live_bound == {"compare", "remove"}
\* hashes.read().unwrap().len() and hashes.read().unwrap().clone(): the guard
\* is a temporary, dropped at the end of the condition or the statement.
read_guard_live == {}
\* hashes.write().unwrap().remove(hash_idx): a temporary as well.
write_guard_live == {}
holds_read(w) == w \in Tasks /\ pc[w] \in read_guard_live
holds_write(w) == w \in Tasks /\ pc[w] \in write_guard_live
\* read() is granted when no task holds the write guard; write() when no task
\* holds any guard, the requesting task's own read guard included.
can_read(w) == \A v \in Tasks : ~holds_write(v)
can_write(w) == \A v \in Tasks : ~holds_read(v) /\ ~holds_write(v)

\* -------------------------------------------------------------------- main
\* File::open(...).await? in read_hashes or read_wordlist returns the error.
OpenFails ==
    /\ mainPc \in {"read_hashes", "read_wordlist"}
    /\ mainPc' = "err"
    /\ hashes_input' = IF mainPc = "read_hashes" THEN "unopened" ELSE hashes_input
    /\ UNCHANGED <<hashes_file, inputVars, hashes, poisoned, streams, spawned, taskVars,
                   loaded, matches, removals, report, ioFailed, afterEmpty>>

\* What read_hashes returns: the decoded lines collected into a HashSet, then
\* into a Vec in the set's (unspecified) iteration order.
\* Mutant of read_hashes: the decoded lines collected straight into the Vec.
read_hashes_no_dedup(lines) == {[k \in 1..Len(lines) |-> hex_decode(lines[k])]}
read_hashes(lines) == Perms({hex_decode(lines[k]) : k \in 1..Len(lines)})
\* Mutant of read_hashes_panics: malformed lines are passed over, not unwrapped.
read_hashes_panics_never(lines) == FALSE
\* hex::decode(hash).unwrap(): when main panics during the load.
read_hashes_panics(lines) == \E k \in 1..Len(lines) : hex_decode(lines[k]) = FromHexError

\* The file's lines are an input of this step: read once, and dropped when
\* main goes on to the wordlist.
ReadHashes ==
    /\ mainPc = "read_hashes"
    /\ \E lines \in HashFiles(hash_mode) :
          /\ hashes_file' = lines
          /\ hashes_input' = IF \A k \in 1..Len(lines) : hex_valid(lines[k])
                             THEN "valid" ELSE "malformed"
          /\ IF read_hashes_panics(lines)
             THEN /\ mainPc' = "panicked"
                  /\ UNCHANGED <<hashes, loaded>>
             ELSE /\ hashes' \in read_hashes(lines)
                  /\ loaded' = Range(hashes')
                  /\ mainPc' = "read_wordlist"
    /\ UNCHANGED <<inputVars, poisoned, streams, spawned, taskVars,
                   matches, removals, report, ioFailed, afterEmpty>>

ReadWordlist ==
    /\ mainPc = "read_wordlist"
    /\ streams' = read_wordlist(wordlist_file, num_cpus)
    /\ mainPc' = "spawn"
    /\ hashes_file' = <<>>
    /\ UNCHANGED <<inputVars, hashes, poisoned, spawned, taskVars, histVars>>

\* for mut chunk in wordlist { tokio::spawn(...) }: one task per stream, in order.
SpawnTask ==
    /\ mainPc = "spawn"
    /\ IF spawned < Len(streams)
       THEN /\ spawned' = spawned + 1
            /\ pc' = [pc EXCEPT ![spawned + 1] = "check"]
            /\ UNCHANGED mainPc
       ELSE /\ mainPc' = "join"
            /\ UNCHANGED <<spawned, pc>>
    /\ UNCHANGED <<hashes_file, inputVars, hashes, poisoned, streams, pos, password, h, hash_idx,
                   histVars>>

\* Mutant of join_ready: the join returns with the first task that is done.
join_ready_any == \E w \in Tasks : pc[w] = "done"
\* try_join_all(tasks).await?: Ok once every task has returned.
join_ready == \A w \in Tasks : pc[w] = "done"
JoinOk ==
    /\ mainPc = "join"
    /\ join_ready
    /\ mainPc' = "report"
    /\ UNCHANGED <<hashes_file, inputVars, hashes, poisoned, streams, spawned, taskVars, histVars>>

\* ... and the first JoinError (a task that panicked) is returned at once.
JoinErr ==
    /\ mainPc = "join"
    /\ \E w \in Tasks : pc[w] = "panicked"
    /\ mainPc' = "err"
    /\ UNCHANGED <<hashes_file, inputVars, hashes, poisoned, streams, spawned, taskVars, histVars>>

\* hashes.read().unwrap(); the unresolved list is printed when it is not empty.
Report ==
    /\ mainPc = "report"
    /\ can_read(0)
    /\ IF poisoned
       THEN /\ mainPc' = "panicked"
            /\ UNCHANGED report
       ELSE /\ mainPc' = "ok"
            /\ report' = IF Len(hashes) > 0
                         THEN [printed |-> TRUE, unresolved |-> hashes]
                         ELSE report
    /\ UNCHANGED <<hashes_file, inputVars, hashes, poisoned, streams, spawned, taskVars,
                   hashes_input, loaded, matches, removals, ioFailed, afterEmpty>>

Main == OpenFails \/ ReadHashes \/ ReadWordlist \/ SpawnTask \/ JoinOk \/ JoinErr \/ Report

\* ------------------------------------------------------------------- tasks
\* main has returned (or panicked): the runtime is shutting down.
shutdown == mainPc \in {"err", "panicked", "ok"}

\* if hashes.read().unwrap().len() == 0 { break; }
CheckEmpty(w) ==
    /\ pc[w] = "check"
    /\ can_read(w)
    /\ pc' = [pc EXCEPT ![w] = IF poisoned THEN "panicked"
                               ELSE IF Len(hashes) = 0 THEN "done" ELSE "next"]
    /\ UNCHANGED <<hashes_file, inputVars, mainPc, hashes, poisoned, streams, spawned, pos, password,
                   h, hash_idx, histVars>>

\* chunk.next().await: Some(line) binds password, None falls through to the
\* top of the loop.
NextLine(w) ==
    /\ pc[w] = "next"
    /\ IF pos[w] < Len(streams[w])
       THEN /\ pos' = [pos EXCEPT ![w] = @ + 1]
            /\ password' = [password EXCEPT ![w] = streams[w][pos[w] + 1]]
            /\ pc' = [pc EXCEPT ![w] = "clone"]
            /\ afterEmpty' = [afterEmpty EXCEPT ![w].pulled =
                                  IF Len(hashes) = 0 THEN @ + 1 ELSE @]
       ELSE /\ pc' = [pc EXCEPT ![w] = "check"]
            /\ UNCHANGED <<pos, password, afterEmpty>>
    /\ UNCHANGED <<hashes_file, inputVars, mainPc, hashes, poisoned, streams, spawned, h, hash_idx,
                   hashes_input, loaded, matches, removals, report, ioFailed>>

\* .map(|l| l.unwrap()): a failed line read panics the task (no lock is held).
NextLineFails(w) ==
    /\ pc[w] = "next"
    /\ pc' = [pc EXCEPT ![w] = "panicked"]
    /\ ioFailed' = ioFailed \cup {w}
    /\ UNCHANGED <<hashes_file, inputVars, mainPc, hashes, poisoned, streams, spawned, pos, password,
                   h, hash_idx, hashes_input, loaded, matches, removals, report, afterEmpty>>

\* let h = hashes.read().unwrap().clone();
CloneHashes(w) ==
    /\ pc[w] = "clone"
    /\ can_read(w)
    /\ IF poisoned
       THEN /\ pc' = [pc EXCEPT ![w] = "panicked"]
            /\ UNCHANGED h
       ELSE /\ pc' = [pc EXCEPT ![w] = "compare"]
            /\ h' = [h EXCEPT ![w] = hashes]
    /\ UNCHANGED <<hashes_file, inputVars, mainPc, hashes, poisoned, streams, spawned, pos, password,
                   hash_idx, histVars>>

\* The first index of h whose entry equals the digest of the password (0: none).
find_match(snapshot, digest) ==
    IF \E k \in 1..Len(snapshot) : snapshot[k] = digest
    THEN CHOOSE k \in 1..Len(snapshot) :
             snapshot[k] = digest /\ \A j \in 1..(k-1) : snapshot[j] # digest
    ELSE 0

\* for (hash_idx, hash) in h.iter().enumerate() { if gen_hash(..) == hash { println!
Compare(w) ==
    /\ pc[w] = "compare"
    /\ LET digest == gen_hash(password[w], hash_mode)
           idx == find_match(h[w], digest)
       IN  /\ hash_idx' = [hash_idx EXCEPT ![w] = idx]
           /\ IF idx > 0
              THEN /\ matches' = matches \cup
                         {[task |-> w, line |-> pos[w], password |-> password[w],
                           digest |-> h[w][idx], live |-> h[w][idx] \in Range(hashes)]}
                   /\ pc' = [pc EXCEPT ![w] = "remove"]
              ELSE /\ pc' = [pc EXCEPT ![w] = "check"]
                   /\ UNCHANGED matches
    /\ afterEmpty' = [afterEmpty EXCEPT ![w].compared =
                          IF Len(hashes) = 0 /\ Len(h[w]) > 0 THEN @ + 1 ELSE @]
    /\ UNCHANGED <<hashes_file, inputVars, mainPc, hashes, poisoned, streams, spawned, pos, password,
                   h, hashes_input, loaded, removals, report, ioFailed>>

\* hashes.write().unwrap().remove(hash_idx); break;
\* Vec::remove panics when the index is not below the length, and the write
\* guard it unwinds through poisons the lock.
remove_in_bounds(list, idx) == idx <= Len(list)
Remove(w) ==
    /\ pc[w] = "remove"
    /\ can_write(w)
    /\ IF poisoned
       THEN /\ pc' = [pc EXCEPT ![w] = "panicked"]
            /\ UNCHANGED <<hashes, poisoned, removals>>
       ELSE IF remove_in_bounds(hashes, hash_idx[w])
       THEN /\ hashes' = RemoveAt(hashes, hash_idx[w])
            /\ removals' = removals \cup
                   {[task |-> w, line |-> pos[w], claimed |-> h[w][hash_idx[w]],
                     removed |-> hashes[hash_idx[w]]]}
            /\ pc' = [pc EXCEPT ![w] = "check"]
            /\ UNCHANGED poisoned
       ELSE /\ poisoned' = TRUE
            /\ pc' = [pc EXCEPT ![w] = "panicked"]
            /\ UNCHANGED <<hashes, removals>>
    /\ UNCHANGED <<hashes_file, inputVars, mainPc, streams, spawned, pos, password, h, hash_idx,
                   hashes_input, loaded, matches, report, ioFailed, afterEmpty>>

\* Once main has returned the runtime drops a task at its await.
Cancel(w) ==
    /\ shutdown
    /\ pc[w] = "next"
    /\ pc' = [pc EXCEPT ![w] = "cancelled"]
    /\ UNCHANGED <<hashes_file, inputVars, mainPc, hashes, poisoned, streams, spawned, pos, password,
                   h, hash_idx, histVars>>

Task(w) == CheckEmpty(w) \/ NextLine(w) \/ NextLineFails(w) \/ CloneHashes(w)
           \/ Compare(w) \/ Remove(w) \/ Cancel(w)

Next ==
    \/ OpenFails \/ ReadHashes \/ ReadWordlist \/ SpawnTask \/ JoinOk \/ JoinErr \/ Report
    \/ \E w \in Tasks : CheckEmpty(w)
    \/ \E w \in Tasks : NextLine(w)
    \/ \E w \in Tasks : NextLineFails(w)
    \/ \E w \in Tasks : CloneHashes(w)
    \/ \E w \in Tasks : Compare(w)
    \/ \E w \in Tasks : Remove(w)
    \/ \E w \in Tasks : Cancel(w)

Spec == Init /\ [][Next]_vars

\* Every task and main are scheduled again and again; a line read need not fail.
TaskRuns(w) ==
    /\ w \in Tasks
    /\ CheckEmpty(w) \/ NextLine(w) \/ CloneHashes(w) \/ Compare(w) \/ Remove(w)
FairSpec ==
    /\ Spec
    /\ WF_vars(Main)
    /\ \A w \in 1..MaxCpus : WF_vars(TaskRuns(w))

\* ================================================================== claims
MatchCount(d) == Cardinality({m \in matches : m.digest = d})
Matched == {m.digest : m \in matches}
Candidates == UNION {Range(streams[w]) : w \in 1..Len(streams)}
AllSpawned == spawned = num_cpus /\ mainPc \notin {"read_hashes", "read_wordlist", "spawn"}
RunOver == AllSpawned /\ mainPc \in {"ok", "err", "panicked"}
NoIoError == ioFailed = {}

\* C1: each target digest is reported as found at most once in the whole run.
C1_AtMostOneMatchPerDigest == \A d \in loaded : MatchCount(d) <= 1

\* C2: when no target is the digest of any candidate of any partition, the run
\* terminates (unless a line read fails): every task leaves its loop, the join
\* returns and main prints every loaded target in the unresolved list.
C2_Disjoint == AllSpawned /\ \A c \in Candidates : gen_hash(c, hash_mode) \notin loaded
C2_DisjointRunTerminates ==
    [](C2_Disjoint =>
         <>(\/ ~NoIoError
            \/ /\ mainPc = "ok"
               /\ \A w \in Tasks : pc[w] = "done"
               /\ loaded = Range(report.unresolved)))

\* C3: with a non-empty target set and a wordlist holding exactly one preimage
\* line per target, a run that is over (and met no read failure) has printed a
\* match line for every target, has emptied the list and reports nothing
\* unresolved.
C3_ExactPreimages ==
    LET lines == Lines(wordlist_file)
    IN  /\ loaded # {}
        /\ Len(lines) = Cardinality(loaded)
        /\ {gen_hash(lines[k], hash_mode) : k \in 1..Len(lines)} = loaded
C3_AllFound ==
    (RunOver /\ NoIoError /\ C3_ExactPreimages) =>
        /\ mainPc = "ok"
        /\ \A d \in loaded : MatchCount(d) >= 1
        /\ hashes = <<>>
        /\ ~report.printed

\* C4: when only some targets have a preimage in the wordlist, the run completes
\* (unless a line read fails) and every loaded target is either reported by a
\* match line or listed as unresolved, never both and never neither.
C4_Partial ==
    /\ AllSpawned
    /\ \E d \in loaded : \E c \in Range(Lines(wordlist_file)) : gen_hash(c, hash_mode) = d
    /\ \E d \in loaded : \A c \in Range(Lines(wordlist_file)) : gen_hash(c, hash_mode) # d
C4_PartialRunAccounts ==
    [](C4_Partial =>
         <>(\/ ~NoIoError
            \/ /\ mainPc = "ok"
               /\ Range(report.unresolved) = loaded \ Matched))

\* C5: the entry a remove takes out of the shared list is the digest its task
\* matched, and no target leaves the list without a match line for it.
C5_RemoveIsTheMatch ==
    /\ \A r \in removals : r.removed = r.claimed
    /\ \A d \in loaded \ Range(hashes) : d \in Matched

\* C6: once the list is empty (and no line read has failed) every task goes to
\* Done having pulled and compared at most one more candidate: none ends in a
\* panic instead.
C6_DoneAfterEmpty ==
    (AllSpawned /\ hashes = <<>> /\ NoIoError) =>
        \A w \in Tasks :
            /\ pc[w] # "panicked"
            /\ afterEmpty[w].pulled <= 1
            /\ afterEmpty[w].compared <= 1

\* C7: main reaches the final report only after every spawned task is Done,
\* and no match line is printed from then on.
C7_ReportAfterAllDone ==
    /\ [](mainPc \in {"report", "ok"} =>
            /\ spawned = num_cpus
            /\ \A w \in Tasks : pc[w] = "done")
    /\ [][(mainPc \in {"report", "ok"}) => (UNCHANGED matches)]_vars
C7_Witness ==
    /\ mainPc = "ok"
    /\ num_cpus >= 2
    /\ \E m1 \in matches : \E m2 \in matches : m1.task # m2.task

\* C8: a failed line read in one task ends only that task: main does not return
\* an error and no other task is cut short.
C8_ReadFailureIsLocal ==
    ioFailed # {} =>
        /\ mainPc # "err"
        /\ \A w \in Tasks : pc[w] # "cancelled"

\* C9: a hashes file with a malformed line, or one that cannot be opened, aborts
\* the run in the load: no stream is created, no task is spawned, and neither a
\* match line nor the unresolved report is printed.
C9_LoadErrorAborts ==
    hashes_input \in {"malformed", "unopened"} =>
        /\ mainPc \in {"panicked", "err"}
        /\ streams = <<>>
        /\ spawned = 0
        /\ \A w \in Tasks : pc[w] = "unspawned"
        /\ hashes = <<>>
        /\ matches = {}
        /\ ~report.printed
C9_Witness == hashes_input = "malformed" /\ mainPc = "panicked"

\* C10: the streams read_wordlist returns hold, between them, every line of the
\* wordlist, for every file size and every number of CPUs.
C10_PartitionsCoverFile ==
    Len(streams) = num_cpus =>
        \A line \in Range(Lines(wordlist_file)) : line \in Candidates

\* C11: each line of the wordlist is produced to one task only: no two tasks
\* pull the line that begins at the same byte of the file.
PulledAt(w) ==
    {LineStart(streams[w], PartitionStart(wordlist_file, num_cpus, w), k) : k \in 1..pos[w]}
C11_NoLineProducedTwice ==
    \A w1 \in Tasks : \A w2 \in Tasks : w1 # w2 => PulledAt(w1) \cap PulledAt(w2) = {}

\* C12: loading deduplicates: the list read_hashes returns holds every digest
\* of the file exactly once, and a file that repeats one digest, in whatever
\* letter case, gives a list of length 1.
C12_LoadDeduplicates ==
    mainPc = "read_wordlist" =>
        /\ \A i \in 1..Len(hashes) : \A j \in 1..Len(hashes) : i # j => hashes[i] # hashes[j]
        /\ Range(hashes) = {hex_decode(hashes_file[k]) : k \in 1..Len(hashes_file)}
        /\ (/\ Len(hashes_file) >= 1
            /\ \A k \in 1..Len(hashes_file) :
                   hex_decode(hashes_file[k]) = hex_decode(hashes_file[1]))
           => Len(hashes) = 1
C12_Witness ==
    /\ mainPc = "read_wordlist"
    /\ Len(hashes_file) >= 2
    /\ hashes_file[1] # hashes_file[2]
    /\ Len(hashes) = 1

\* C13: a task whose stream has no line left (its next() returns None) leaves
\* its loop, whether or not the list is empty: it reaches Done (or, at the
\* least, ends in some other way) instead of asking its stream again.
C13_Exhausted(w) == w \in Tasks /\ pc[w] = "next" /\ pos[w] = Len(streams[w])
C13_Left(w) == w \in Tasks /\ pc[w] \in {"done", "panicked", "cancelled"}
C13_ExhaustedReachesDone ==
    \A w \in 1..MaxCpus :
        [](C13_Exhausted(w) => <>C13_Left(w))

\* C14: the shared list never holds a digest twice and holds only digests
\* that were loaded; once loaded, its only change is the removal of one entry,
\* the others keeping their order.
C14_OneRemoved(s, t) ==
    /\ Len(t) = Len(s) - 1
    /\ \E idx \in 1..Len(s) :
          /\ \A k \in 1..(idx - 1) : t[k] = s[k]
          /\ \A k \in idx..Len(t) : t[k] = s[k + 1]
C14_ListOnlyShrinks ==
    /\ [](/\ \A i \in 1..Len(hashes) : \A j \in 1..Len(hashes) :
                i # j => hashes[i] # hashes[j]
          /\ Range(hashes) \subseteq loaded)
    /\ [][(mainPc # "read_hashes") =>
             (UNCHANGED hashes \/ C14_OneRemoved(hashes, hashes'))]_vars
C14_Witness == AllSpawned /\ removals # {} /\ Len(hashes) >= 1

\* C15: every match line is sound: its digest is the selected algorithm's
\* digest of the printed candidate, was loaded at startup, and was still in
\* the shared list when the line was printed.
C15_MatchSound ==
    \A m \in matches :
        /\ m.digest = gen_hash(m.password, hash_mode)
        /\ m.digest \in loaded
        /\ m.live

\* C16: the index a task passes to Vec::remove is below the current length of
\* the shared list under every interleaving, so no remove panics under the
\* write guard and the lock is never poisoned.
C16_LockNeverPoisoned == ~poisoned

\* C17: the locking protocol cannot deadlock: a task asking for the write
\* lock holds no read guard, a task suspended at the await on its stream holds
\* no guard, main asks for its read lock only when every task has finished,
\* and whenever a task waits at a lock request, some such task is granted it.
C17_AtLock(w) == w \in Tasks /\ pc[w] \in {"check", "clone", "remove"}
C17_Granted(w) == ENABLED (CheckEmpty(w) \/ CloneHashes(w) \/ Remove(w))
C17_LockingDeadlockFree ==
    /\ \A w \in Tasks : pc[w] = "remove" => ~holds_read(w)
    /\ \A w \in Tasks : pc[w] = "next" => ~holds_read(w) /\ ~holds_write(w)
    /\ mainPc = "report" => (\A w \in Tasks : pc[w] = "done") /\ ENABLED Report
    /\ (\E w \in Tasks : C17_AtLock(w)) => (\E w \in Tasks : C17_AtLock(w) /\ C17_Granted(w))
C17_Witness ==
    /\ ~poisoned
    /\ \E w \in Tasks : \E v \in Tasks : pc[w] = "remove" /\ pc[v] = "clone"

\* C18: when main returns Ok, every loaded digest that is not in the final
\* list was printed by a match line, and the match lines and the digests left
\* in the list together number the loaded digests.
C18_OkRunAccounts ==
    mainPc = "ok" =>
        /\ \A d \in loaded \ Range(hashes) : d \in Matched
        /\ Cardinality(matches) + Len(hashes) = Cardinality(loaded)
====
